---- MODULE Spec2Model ----
(***************************************************************************)
(* A model of system/gd/rust/topshim/src/profiles/hfp.rs: the Hfp command  *)
(* gateway (the `Hfp` struct and its methods), the dispatcher registration *)
(* done by Hfp::initialize, the callbacks generated by cb_variant!, and    *)
(* the TryFrom<i32> conversions of the codec bit-sets.                     *)
(*                                                                         *)
(* The native transport behind ffi::HfpIntf is only declared in hfp.rs.    *)
(* Its per-device connection state machine is modelled from sections 3,    *)
(* 4.2 and 4.4 of the specification (the HfpIntf_* definitions).           *)
(***************************************************************************)
EXTENDS Integers, Sequences, FiniteSets, TLC

\* ------------------------------------------------------------------ bounds
\* Number of remote device addresses (RawAddress values) in the model.
NumAddrs == 2
\* Raw u32 / i32 result codes the transport may hand back: 0 .. MaxRaw.
MaxRaw == 3
\* Raw u32 state values a state callback may carry: 0 .. MaxRawState.
MaxRawState == 5
\* Number of transport threads that may run callbacks concurrently.
NumThreads == 2

Addrs == 1..NumAddrs
NoAddr == 0
RawResults == 0..MaxRaw
Threads == 1..NumThreads
NoThread == 0

\* Subscribers (HfpCallbacksDispatcher values) a caller may pass to initialize.
Subscribers == {"sub1", "sub2"}
NoSub == "none"

VARIABLES
    is_init,      \* Hfp::_is_init
    is_enabled,   \* Hfp::_is_enabled
    dispatcher,   \* the HfpCb entry of get_dispatchers(), or NoSub
    panicked,     \* the process has panicked (panic! / unwrap on None)
    conn,         \* transport: signaling ConnectionState per address
    audio,        \* transport: AudioState per address
    active,       \* transport: the active device, or NoAddr
    op,           \* the Hfp method invoked by the last step: [name, addr]
    ret,          \* what that method returned
    tcall,        \* the ffi::HfpIntf call that method made: [fn, args]
    tret,         \* what each ffi::HfpIntf call of that method returned, in order
    init_called,  \* some method has called ffi::HfpIntf::init since Hfp::new
    again,        \* the step before invoked the same method on the same address
    pc,           \* per callback thread: "idle", "entered", "dispatching"
    raw,          \* per callback thread: the extern "Rust" callback running
    ev,           \* per callback thread: the HfpCallbacks value handed over
    res,          \* per callback thread: how its last callback ended
    cb_lock       \* holder of the Mutex in HfpCb, or NoThread

hfpVars == <<is_init, is_enabled>>
regVars == <<dispatcher, panicked>>
transportVars == <<conn, audio, active>>
obsVars == <<op, ret, tcall, tret, init_called, again>>
cbVars == <<pc, raw, ev, res, cb_lock>>
vars == <<is_init, is_enabled, dispatcher, panicked, conn, audio, active,
          op, ret, tcall, tret, init_called, again, pc, raw, ev, res, cb_lock>>

\* ------------------------------------------------------------ value types
\* BthfConnectionState, hfp.rs lines 48-56, in discriminant order.
BthfConnectionState ==
    <<"Disconnected", "Connecting", "Connected", "SlcConnected", "Disconnecting">>
\* BthfAudioState, hfp.rs lines 64-71, in discriminant order.
BthfAudioState ==
    <<"Disconnected", "Connecting", "Connected", "Disconnecting">>

\* FromPrimitive::from_u32 of a fieldless enum: Some(variant) or None.
None == "None"
from_u32(variants, item) ==
    IF item + 1 \in 1..Len(variants) THEN variants[item + 1] ELSE None

\* impl From<u32> for BthfConnectionState: from_u32(item).unwrap().
\* The result None stands for the panic of unwrap.
BthfConnectionState_from(item) == from_u32(BthfConnectionState, item)
\* impl From<u32> for BthfAudioState: from_u32(item).unwrap().
BthfAudioState_from(item) == from_u32(BthfAudioState, item)

\* BtStatus (crate::btif): the status codes of the transport.
BtStatus_from(item) ==
    CASE item = 0 -> "Success"
      [] item = 1 -> "Fail"
      [] item = 2 -> "NotReady"
      [] OTHER -> "Unknown"
\* BtStatus::into(): the integer of a status.
BtStatus_into(status) ==
    CASE status = "Success" -> 0
      [] status = "Fail" -> 1
      [] status = "NotReady" -> 2
      [] OTHER -> 255

NoCall == [fn |-> "none", args |-> <<>>]
NoOp == [name |-> "none", addr |-> NoAddr]
NoRet == "none"
\* The value of a function that returns nothing.
Unit == "unit"
Call(fn, args) == [fn |-> fn, args |-> args]
Op(name, addr) == [name |-> name, addr |-> addr]


\* ------------------------------------------------------ argument samples
\* i8 volume levels passed to set_volume / set_mic_volume.
Volumes == {0, 15}
\* (sco_offload, disabled_codecs) pairs passed to connect_audio; the mask
\* is a set of HfpCodecFormat bits.
AudioArgs == {<<FALSE, 0>>, <<TRUE, 4>>}
\* TelephonyDeviceStatus::new(), hfp.rs lines 269-278.
TelephonyDeviceStatus_new ==
    [network_available |-> TRUE, roaming |-> FALSE,
     signal_strength |-> 5, battery_level |-> 5]
DeviceStatuses == {TelephonyDeviceStatus_new}
PhoneStates == {[num_active |-> 1, num_held |-> 0, state |-> "Dialing"]}
Numbers == {"5551234"}
Oks == {TRUE}
CallInfo(i) ==
    [index |-> i, dir_incoming |-> (i % 2 = 1),
     state |-> IF i % 2 = 1 THEN "Active" ELSE "Held", number |-> ""]
CallLists == {<<CallInfo(2), CallInfo(1)>>}

\* ------------------------------------------- transport (ffi::HfpIntf)
\* The per-device state machine of specification section 4.2. Each
\* HfpIntf_* operator gives the raw result of the call and the transport
\* state after it.
SignalingUp == {"Connected", "SlcConnected"}
NonTerminal == {"Connecting", "Connected", "SlcConnected"}
Accepted == BtStatus_into("Success")
Rejected == BtStatus_into("NotReady")
After(r, c, au, ac) == [res |-> r, conn |-> c, audio |-> au, active |-> ac]
Same(r) == After(r, conn, audio, active)

HfpIntf_connect(addr) ==
    IF conn[addr] = "Disconnected"
    THEN After(Accepted, [conn EXCEPT ![addr] = "Connecting"], audio, active)
    ELSE IF conn[addr] \in NonTerminal THEN Same(Accepted)
    ELSE Same(Rejected)

\* connect_audio not gated by the signaling state.
HfpIntf_connect_audio_ungated(addr, sco_offload, disabled_codecs) ==
    IF audio[addr] = "Disconnected"
    THEN After(Accepted, conn, [audio EXCEPT ![addr] = "Connecting"], active)
    ELSE Same(Rejected)

HfpIntf_connect_audio(addr, sco_offload, disabled_codecs) ==
    IF conn[addr] \in SignalingUp /\ audio[addr] = "Disconnected"
    THEN After(Accepted, conn, [audio EXCEPT ![addr] = "Connecting"], active)
    ELSE Same(Rejected)

HfpIntf_set_active_device(addr) == After(Accepted, conn, audio, addr)

HfpIntf_disconnect(addr) ==
    IF conn[addr] \in NonTerminal
    THEN After(Accepted, [conn EXCEPT ![addr] = "Disconnecting"], audio, active)
    ELSE Same(Rejected)

HfpIntf_disconnect_audio(addr) ==
    IF audio[addr] \in {"Connecting", "Connected"}
    THEN After(Accepted, conn, [audio EXCEPT ![addr] = "Disconnecting"], active)
    ELSE Same(Rejected)

\* The transport state after a call that returned t.
Transport(t) ==
    /\ conn' = t.conn
    /\ audio' = t.audio
    /\ active' = t.active

\* No Hfp method ran in this step.
NoMethod ==
    op' = NoOp /\ ret' = NoRet /\ tcall' = NoCall /\ tret' = <<>> /\ again' = FALSE
    /\ init_called' = init_called

\* Signaling: Connecting -> Connected (the transport confirms).
TransportConfirms(addr) ==
    /\ ~panicked
    /\ conn[addr] = "Connecting"
    /\ conn' = [conn EXCEPT ![addr] = "Connected"]
    /\ NoMethod
    /\ UNCHANGED <<audio, active, hfpVars, regVars, cbVars>>

\* Signaling: Connected -> SlcConnected (service negotiation completes).
ServiceNegotiationCompletes(addr) ==
    /\ ~panicked
    /\ conn[addr] = "Connected"
    /\ conn' = [conn EXCEPT ![addr] = "SlcConnected"]
    /\ NoMethod
    /\ UNCHANGED <<audio, active, hfpVars, regVars, cbVars>>

\* Signaling: any non-terminal state -> Disconnecting (transport failure).
TransportFailure(addr) ==
    /\ ~panicked
    /\ conn[addr] \in NonTerminal
    /\ conn' = [conn EXCEPT ![addr] = "Disconnecting"]
    /\ NoMethod
    /\ UNCHANGED <<audio, active, hfpVars, regVars, cbVars>>

\* Signaling: Disconnecting -> Disconnected (full teardown; the per-device
\* state is destroyed, which resets the audio state with it).
FullTeardown(addr) ==
    /\ ~panicked
    /\ conn[addr] = "Disconnecting"
    /\ conn' = [conn EXCEPT ![addr] = "Disconnected"]
    /\ audio' = [audio EXCEPT ![addr] = "Disconnected"]
    /\ NoMethod
    /\ UNCHANGED <<active, hfpVars, regVars, cbVars>>

\* Audio: Connecting -> Connected (confirmed).
AudioConfirmed(addr) ==
    /\ ~panicked
    /\ audio[addr] = "Connecting"
    /\ audio' = [audio EXCEPT ![addr] = "Connected"]
    /\ NoMethod
    /\ UNCHANGED <<conn, active, hfpVars, regVars, cbVars>>

\* Audio: Connected -> Disconnecting (teardown).
AudioTeardown(addr) ==
    /\ ~panicked
    /\ audio[addr] = "Connected"
    /\ audio' = [audio EXCEPT ![addr] = "Disconnecting"]
    /\ NoMethod
    /\ UNCHANGED <<conn, active, hfpVars, regVars, cbVars>>

\* Audio: Disconnecting -> Disconnected.
AudioTeardownDone(addr) ==
    /\ ~panicked
    /\ audio[addr] = "Disconnecting"
    /\ audio' = [audio EXCEPT ![addr] = "Disconnected"]
    /\ NoMethod
    /\ UNCHANGED <<conn, active, hfpVars, regVars, cbVars>>


\* ------------------------------------------------ Hfp: ToggleableProfile
\* The method returns value r without calling the transport.
Returns(name, addr, r) ==
    /\ op' = Op(name, addr)
    /\ again' = (op.name = name /\ op.addr = addr)
    /\ init_called' = init_called
    /\ ret' = r
    /\ tcall' = NoCall
    /\ tret' = <<>>
    /\ UNCHANGED transportVars

\* The method calls the transport function fn and returns r; t is what the
\* transport did.
Forwards(name, addr, fn, args, t, r) ==
    /\ op' = Op(name, addr)
    /\ again' = (op.name = name /\ op.addr = addr)
    /\ init_called' = (init_called \/ fn = "init")
    /\ ret' = r
    /\ tcall' = Call(fn, args)
    /\ tret' = <<t.res>>
    /\ Transport(t)

\* enable skipping the transport's init on a profile that is enabled.
enable_when_disabled ==
    /\ ~panicked
    /\ IF is_enabled
       THEN Returns("enable", NoAddr, TRUE)
       ELSE Forwards("enable", NoAddr, "init", <<>>, Same(Accepted), TRUE)
    /\ is_enabled' = TRUE
    /\ UNCHANGED <<is_init, regVars, cbVars>>

\* fn enable(&mut self) -> bool
enable ==
    /\ ~panicked
    /\ Forwards("enable", NoAddr, "init", <<>>, Same(Accepted), TRUE)
    /\ is_enabled' = TRUE
    /\ UNCHANGED <<is_init, regVars, cbVars>>

\* disable without its #[profile_enabled_or(false)] attribute.
disable_unguarded ==
    /\ ~panicked
    /\ Forwards("disable", NoAddr, "cleanup", <<>>, Same(Unit), TRUE)
    /\ is_enabled' = FALSE
    /\ UNCHANGED <<is_init, regVars, cbVars>>

\* #[profile_enabled_or(false)] fn disable(&mut self) -> bool
disable ==
    /\ ~panicked
    /\ IF ~is_enabled
       THEN Returns("disable", NoAddr, FALSE) /\ UNCHANGED is_enabled
       ELSE /\ Forwards("disable", NoAddr, "cleanup", <<>>, Same(Unit), TRUE)
            /\ is_enabled' = FALSE
    /\ UNCHANGED <<is_init, regVars, cbVars>>

\* cleanup clearing the enabled flag, as disable does.
cleanup_clears_enabled ==
    /\ ~panicked
    /\ IF ~is_enabled
       THEN Returns("cleanup", NoAddr, FALSE) /\ UNCHANGED is_enabled
       ELSE /\ Forwards("cleanup", NoAddr, "cleanup", <<>>, Same(Unit), TRUE)
            /\ is_enabled' = FALSE
    /\ UNCHANGED <<is_init, regVars, cbVars>>

\* #[profile_enabled_or(false)] pub fn cleanup(&mut self) -> bool
cleanup ==
    /\ ~panicked
    /\ IF ~is_enabled
       THEN Returns("cleanup", NoAddr, FALSE)
       ELSE Forwards("cleanup", NoAddr, "cleanup", <<>>, Same(Unit), TRUE)
    /\ UNCHANGED <<hfpVars, regVars, cbVars>>

\* #[profile_enabled_or] pub fn debug_dump(&mut self)
debug_dump ==
    /\ ~panicked
    /\ IF ~is_enabled
       THEN Returns("debug_dump", NoAddr, Unit)
       ELSE Forwards("debug_dump", NoAddr, "debug_dump", <<>>, Same(Unit), Unit)
    /\ UNCHANGED <<hfpVars, regVars, cbVars>>

\* get_dispatchers().lock().unwrap().set::<HfpCb>(..): registers the
\* dispatcher unless one is registered, and tells whether one was.
DispatchersSet(callbacks) ==
    [existed |-> dispatcher # NoSub,
     entry |-> IF dispatcher # NoSub THEN dispatcher ELSE callbacks]

\* initialize without the panic: the new dispatcher replaces the old one.
initialize_replaces(callbacks) ==
    /\ ~panicked
    /\ op' = [name |-> "initialize", addr |-> NoAddr, callbacks |-> callbacks]
    /\ again' = (op.name = "initialize")
    /\ init_called' = init_called
    /\ tcall' = NoCall
    /\ tret' = <<>>
    /\ dispatcher' = callbacks
    /\ panicked' = FALSE /\ ret' = TRUE /\ is_init' = TRUE
    /\ UNCHANGED <<is_enabled, transportVars, cbVars>>

\* pub fn initialize(&mut self, callbacks: HfpCallbacksDispatcher) -> bool
initialize(callbacks) ==
    /\ ~panicked
    /\ op' = [name |-> "initialize", addr |-> NoAddr, callbacks |-> callbacks]
    /\ again' = (op.name = "initialize")
    /\ init_called' = init_called
    /\ tcall' = NoCall
    /\ tret' = <<>>
    /\ LET s == DispatchersSet(callbacks) IN
        /\ dispatcher' = s.entry
        /\ IF s.existed
           THEN panicked' = TRUE /\ ret' = NoRet /\ UNCHANGED is_init
           ELSE panicked' = FALSE /\ ret' = TRUE /\ is_init' = TRUE
    /\ UNCHANGED <<is_enabled, transportVars, cbVars>>

\* ------------------------------------------------- Hfp: command gateway
\* connect restarting the negotiation: it has the transport disconnect the
\* address before it connects it.
connect_restarts(addr) ==
    /\ ~panicked
    /\ IF ~is_enabled
       THEN Returns("connect", addr, "NotReady")
       ELSE LET d == HfpIntf_disconnect(addr)
                t == IF d.conn[addr] = "Disconnected"
                     THEN After(Accepted, [d.conn EXCEPT ![addr] = "Connecting"],
                                d.audio, d.active)
                     ELSE IF d.conn[addr] \in NonTerminal
                     THEN After(Accepted, d.conn, d.audio, d.active)
                     ELSE After(Rejected, d.conn, d.audio, d.active)
            IN Forwards("connect", addr, "connect", <<addr>>, t, BtStatus_from(t.res))
    /\ UNCHANGED <<hfpVars, regVars, cbVars>>

\* connect guarded by the initialized flag as well.
connect_needs_init(addr) ==
    /\ ~panicked
    /\ IF ~is_enabled \/ ~is_init
       THEN Returns("connect", addr, "NotReady")
       ELSE LET t == HfpIntf_connect(addr) IN
            Forwards("connect", addr, "connect", <<addr>>, t, BtStatus_from(t.res))
    /\ UNCHANGED <<hfpVars, regVars, cbVars>>

\* #[profile_enabled_or(BtStatus::NotReady)]
\* pub fn connect(&mut self, addr: RawAddress) -> BtStatus
connect(addr) ==
    /\ ~panicked
    /\ IF ~is_enabled
       THEN Returns("connect", addr, "NotReady")
       ELSE LET t == HfpIntf_connect(addr) IN
            Forwards("connect", addr, "connect", <<addr>>, t, BtStatus_from(t.res))
    /\ UNCHANGED <<hfpVars, regVars, cbVars>>

\* connect_audio dropping the transport's result and reporting success.
connect_audio_drops_result(addr, sco_offload, disabled_codecs) ==
    /\ ~panicked
    /\ IF ~is_enabled
       THEN Returns("connect_audio", addr, BtStatus_into("NotReady"))
       ELSE LET t == HfpIntf_connect_audio(addr, sco_offload, disabled_codecs) IN
            Forwards("connect_audio", addr, "connect_audio",
                     <<addr, sco_offload, disabled_codecs>>, t, BtStatus_into("Success"))
    /\ UNCHANGED <<hfpVars, regVars, cbVars>>

\* #[profile_enabled_or(BtStatus::NotReady.into())]
\* pub fn connect_audio(&mut self, addr, sco_offload, disabled_codecs) -> i32
connect_audio(addr, sco_offload, disabled_codecs) ==
    /\ ~panicked
    /\ IF ~is_enabled
       THEN Returns("connect_audio", addr, BtStatus_into("NotReady"))
       ELSE LET t == HfpIntf_connect_audio(addr, sco_offload, disabled_codecs) IN
            Forwards("connect_audio", addr, "connect_audio",
                     <<addr, sco_offload, disabled_codecs>>, t, t.res)
    /\ UNCHANGED <<hfpVars, regVars, cbVars>>

\* set_active_device calling the transport's connect instead.
set_active_device_calls_connect(addr) ==
    /\ ~panicked
    /\ IF ~is_enabled
       THEN Returns("set_active_device", addr, BtStatus_into("NotReady"))
       ELSE LET t == HfpIntf_connect(addr) IN
            Forwards("set_active_device", addr, "connect", <<addr>>, t, t.res)
    /\ UNCHANGED <<hfpVars, regVars, cbVars>>

\* #[profile_enabled_or(BtStatus::NotReady.into())]
\* pub fn set_active_device(&mut self, addr: RawAddress) -> i32
set_active_device(addr) ==
    /\ ~panicked
    /\ IF ~is_enabled
       THEN Returns("set_active_device", addr, BtStatus_into("NotReady"))
       ELSE LET t == HfpIntf_set_active_device(addr) IN
            Forwards("set_active_device", addr, "set_active_device", <<addr>>, t, t.res)
    /\ UNCHANGED <<hfpVars, regVars, cbVars>>

\* set_volume without its #[profile_enabled_or] attribute.
set_volume_unguarded(volume, addr) ==
    /\ ~panicked
    /\ \E r \in RawResults :
            Forwards("set_volume", addr, "set_volume", <<volume, addr>>, Same(r), r)
    /\ UNCHANGED <<hfpVars, regVars, cbVars>>

\* #[profile_enabled_or(BtStatus::NotReady.into())]
\* pub fn set_volume(&mut self, volume: i8, addr: RawAddress) -> i32
set_volume(volume, addr) ==
    /\ ~panicked
    /\ IF ~is_enabled
       THEN Returns("set_volume", addr, BtStatus_into("NotReady"))
       ELSE \E r \in RawResults :
            Forwards("set_volume", addr, "set_volume", <<volume, addr>>, Same(r), r)
    /\ UNCHANGED <<hfpVars, regVars, cbVars>>

\* set_mic_volume calling the transport a second time when the first call
\* reports a failure.
set_mic_volume_retries(volume, addr) ==
    /\ ~panicked
    /\ IF ~is_enabled
       THEN Returns("set_mic_volume", addr, "NotReady")
       ELSE \E r1, r2 \in RawResults :
            /\ op' = Op("set_mic_volume", addr)
            /\ again' = (op.name = "set_mic_volume" /\ op.addr = addr)
            /\ init_called' = init_called
            /\ tcall' = Call("set_mic_volume", <<volume, addr>>)
            /\ tret' = IF r1 = Accepted THEN <<r1>> ELSE <<r1, r2>>
            /\ ret' = BtStatus_from(IF r1 = Accepted THEN r1 ELSE r2)
            /\ UNCHANGED transportVars
    /\ UNCHANGED <<hfpVars, regVars, cbVars>>

\* #[profile_enabled_or(BtStatus::NotReady.into())]
\* pub fn set_mic_volume(&mut self, volume: i8, addr: RawAddress) -> BtStatus
set_mic_volume(volume, addr) ==
    /\ ~panicked
    /\ IF ~is_enabled
       THEN Returns("set_mic_volume", addr, "NotReady")
       ELSE \E r \in RawResults :
            Forwards("set_mic_volume", addr, "set_mic_volume", <<volume, addr>>,
                     Same(r), BtStatus_from(r))
    /\ UNCHANGED <<hfpVars, regVars, cbVars>>

\* disconnect with the enabled test inverted.
disconnect_guard_inverted(addr) ==
    /\ ~panicked
    /\ IF is_enabled
       THEN Returns("disconnect", addr, "NotReady")
       ELSE LET t == HfpIntf_disconnect(addr) IN
            Forwards("disconnect", addr, "disconnect", <<addr>>, t, BtStatus_from(t.res))
    /\ UNCHANGED <<hfpVars, regVars, cbVars>>

\* #[profile_enabled_or(BtStatus::NotReady)]
\* pub fn disconnect(&mut self, addr: RawAddress) -> BtStatus
disconnect(addr) ==
    /\ ~panicked
    /\ IF ~is_enabled
       THEN Returns("disconnect", addr, "NotReady")
       ELSE LET t == HfpIntf_disconnect(addr) IN
            Forwards("disconnect", addr, "disconnect", <<addr>>, t, BtStatus_from(t.res))
    /\ UNCHANGED <<hfpVars, regVars, cbVars>>

\* disconnect_audio dropping the transport's result and reporting success.
disconnect_audio_drops_result(addr) ==
    /\ ~panicked
    /\ IF ~is_enabled
       THEN Returns("disconnect_audio", addr, BtStatus_into("NotReady"))
       ELSE LET t == HfpIntf_disconnect_audio(addr) IN
            Forwards("disconnect_audio", addr, "disconnect_audio", <<addr>>, t,
                     BtStatus_into("Success"))
    /\ UNCHANGED <<hfpVars, regVars, cbVars>>

\* #[profile_enabled_or(BtStatus::NotReady.into())]
\* pub fn disconnect_audio(&mut self, addr: RawAddress) -> i32
disconnect_audio(addr) ==
    /\ ~panicked
    /\ IF ~is_enabled
       THEN Returns("disconnect_audio", addr, BtStatus_into("NotReady"))
       ELSE LET t == HfpIntf_disconnect_audio(addr) IN
            Forwards("disconnect_audio", addr, "disconnect_audio", <<addr>>, t, t.res)
    /\ UNCHANGED <<hfpVars, regVars, cbVars>>

\* #[profile_enabled_or(BtStatus::NotReady)]
\* pub fn device_status_notification(&mut self, status, addr) -> BtStatus
device_status_notification(status, addr) ==
    /\ ~panicked
    /\ IF ~is_enabled
       THEN Returns("device_status_notification", addr, "NotReady")
       ELSE \E r \in RawResults :
            Forwards("device_status_notification", addr, "device_status_notification",
                     <<status, addr>>, Same(r), BtStatus_from(r))
    /\ UNCHANGED <<hfpVars, regVars, cbVars>>

\* #[profile_enabled_or(BtStatus::NotReady)]
\* pub fn indicator_query_response(&mut self, device_status, phone_state, addr)
indicator_query_response(device_status, phone_state, addr) ==
    /\ ~panicked
    /\ IF ~is_enabled
       THEN Returns("indicator_query_response", addr, "NotReady")
       ELSE \E r \in RawResults :
            Forwards("indicator_query_response", addr, "indicator_query_response",
                     <<device_status, phone_state, addr>>, Same(r), BtStatus_from(r))
    /\ UNCHANGED <<hfpVars, regVars, cbVars>>

\* The list in reverse order.
Reversed(call_list) ==
    [i \in 1..Len(call_list) |-> call_list[Len(call_list) + 1 - i]]

\* current_calls_query_response handing the list over in reverse order.
current_calls_query_response_reverses(call_list, addr) ==
    /\ ~panicked
    /\ op' = [name |-> "current_calls_query_response", addr |-> addr,
              call_list |-> call_list]
    /\ again' = (op.name = "current_calls_query_response" /\ op.addr = addr)
    /\ init_called' = init_called
    /\ IF ~is_enabled
       THEN ret' = "NotReady" /\ tcall' = NoCall /\ tret' = <<>>
            /\ UNCHANGED transportVars
       ELSE \E r \in RawResults :
            /\ ret' = BtStatus_from(r)
            /\ tcall' = Call("current_calls_query_response", <<Reversed(call_list), addr>>)
            /\ tret' = <<r>>
            /\ Transport(Same(r))
    /\ UNCHANGED <<hfpVars, regVars, cbVars>>

\* #[profile_enabled_or(BtStatus::NotReady)]
\* pub fn current_calls_query_response(&mut self, call_list, addr) -> BtStatus
\* call_list is borrowed as &Vec<CallInfo>: op records the caller's list as
\* it is when the method returns.
current_calls_query_response(call_list, addr) ==
    /\ ~panicked
    /\ op' = [name |-> "current_calls_query_response", addr |-> addr,
              call_list |-> call_list]
    /\ again' = (op.name = "current_calls_query_response" /\ op.addr = addr)
    /\ init_called' = init_called
    /\ IF ~is_enabled
       THEN ret' = "NotReady" /\ tcall' = NoCall /\ tret' = <<>>
            /\ UNCHANGED transportVars
       ELSE \E r \in RawResults :
            /\ ret' = BtStatus_from(r)
            /\ tcall' = Call("current_calls_query_response", <<call_list, addr>>)
            /\ tret' = <<r>>
            /\ Transport(Same(r))
    /\ UNCHANGED <<hfpVars, regVars, cbVars>>

\* #[profile_enabled_or(BtStatus::NotReady)]
\* pub fn phone_state_change(&mut self, phone_state, number, addr) -> BtStatus
phone_state_change(phone_state, number, addr) ==
    /\ ~panicked
    /\ IF ~is_enabled
       THEN Returns("phone_state_change", addr, "NotReady")
       ELSE \E r \in RawResults :
            Forwards("phone_state_change", addr, "phone_state_change",
                     <<phone_state, number, addr>>, Same(r), BtStatus_from(r))
    /\ UNCHANGED <<hfpVars, regVars, cbVars>>

\* #[profile_enabled_or(BtStatus::NotReady)]
\* pub fn simple_at_response(&mut self, ok: bool, addr: RawAddress) -> BtStatus
simple_at_response(ok, addr) ==
    /\ ~panicked
    /\ IF ~is_enabled
       THEN Returns("simple_at_response", addr, "NotReady")
       ELSE \E r \in RawResults :
            Forwards("simple_at_response", addr, "simple_at_response",
                     <<ok, addr>>, Same(r), BtStatus_from(r))
    /\ UNCHANGED <<hfpVars, regVars, cbVars>>

\* ------------------------------------------------------------------- Spec
Init ==
    /\ is_init = FALSE
    /\ is_enabled = FALSE
    /\ dispatcher = NoSub
    /\ panicked = FALSE
    /\ conn = [a \in Addrs |-> "Disconnected"]
    /\ audio = [a \in Addrs |-> "Disconnected"]
    /\ active = NoAddr
    /\ op = NoOp
    /\ ret = NoRet
    /\ tcall = NoCall
    /\ tret = <<>>
    /\ init_called = FALSE
    /\ again = FALSE
    /\ pc = [t \in Threads |-> "idle"]
    /\ raw = [t \in Threads |-> [fn |-> "none"]]
    /\ ev = [t \in Threads |-> [variant |-> "none"]]
    /\ res = [t \in Threads |-> "none"]
    /\ cb_lock = NoThread

Next ==
    \/ enable
    \/ disable
    \/ cleanup
    \/ debug_dump
    \/ \E callbacks \in Subscribers : initialize(callbacks)
    \/ \E addr \in Addrs : connect(addr)
    \/ \E addr \in Addrs, a \in AudioArgs : connect_audio(addr, a[1], a[2])
    \/ \E addr \in Addrs : set_active_device(addr)
    \/ \E volume \in Volumes, addr \in Addrs : set_volume(volume, addr)
    \/ \E volume \in Volumes, addr \in Addrs : set_mic_volume(volume, addr)
    \/ \E addr \in Addrs : disconnect(addr)
    \/ \E addr \in Addrs : disconnect_audio(addr)
    \/ \E status \in DeviceStatuses, addr \in Addrs :
          device_status_notification(status, addr)
    \/ \E device_status \in DeviceStatuses, phone_state \in PhoneStates, addr \in Addrs :
          indicator_query_response(device_status, phone_state, addr)
    \/ \E call_list \in CallLists, addr \in Addrs :
          current_calls_query_response(call_list, addr)
    \/ \E phone_state \in PhoneStates, number \in Numbers, addr \in Addrs :
          phone_state_change(phone_state, number, addr)
    \/ \E ok \in Oks, addr \in Addrs : simple_at_response(ok, addr)

Spec == Init /\ [][Next]_vars

\* The five operations that drive the connection state machine, with the
\* transitions the transport makes on its own.
NextSm ==
    \/ enable
    \/ disable
    \/ \E addr \in Addrs : connect(addr)
    \/ \E addr \in Addrs, a \in AudioArgs : connect_audio(addr, a[1], a[2])
    \/ \E addr \in Addrs : set_active_device(addr)
    \/ \E addr \in Addrs : disconnect(addr)
    \/ \E addr \in Addrs : disconnect_audio(addr)
    \/ \E addr \in Addrs : TransportConfirms(addr)
    \/ \E addr \in Addrs : ServiceNegotiationCompletes(addr)
    \/ \E addr \in Addrs : TransportFailure(addr)
    \/ \E addr \in Addrs : FullTeardown(addr)
    \/ \E addr \in Addrs : AudioConfirmed(addr)
    \/ \E addr \in Addrs : AudioTeardown(addr)
    \/ \E addr \in Addrs : AudioTeardownDone(addr)

SpecSm == Init /\ [][NextSm]_vars


\* ------------------------------------------------- callbacks (cb_variant!)
\* Payload samples of the callbacks.
U8s == {7}
AtStrings == {"+XAPL=1"}
RawStates == 0..MaxRawState
\* ffi::CallHoldCommand, hfp.rs lines 177-185.
CallHoldCommand ==
    {"ReleaseHeld", "ReleaseActiveAcceptHeld", "HoldActiveAcceptHeld", "AddHeldToConf"}
\* One hfp_debug_dump_callback argument list: active, codec_id,
\* total_num_decoded_frames, pkt_loss_ratio, begin_ts, end_ts,
\* pkt_status_in_hex, pkt_status_in_binary.
DebugDumps == {<<TRUE, 2, 100, 0, 1, 2, "ff", "11111111">>}

NoCb == [fn |-> "none"]
NoEv == [variant |-> "none"]

\* The conversion of an argument of the callback panics: the
\* `u32 -> BthfConnectionState` and `u32 -> BthfAudioState` arguments are
\* converted with From::from, which unwraps.
Unwraps(cb) ==
    CASE cb.fn = "hfp_connection_state_callback" ->
            BthfConnectionState_from(cb.state) = None
      [] cb.fn = "hfp_audio_state_callback" -> BthfAudioState_from(cb.state) = None
      [] OTHER -> FALSE

\* The HfpCallbacks value an extern "Rust" callback builds from its
\* arguments (the cb_variant! lines 310-383) when no conversion panics.
HfpCallbacks(cb) ==
    CASE cb.fn = "hfp_connection_state_callback" ->
            [variant |-> "ConnectionState",
             state |-> BthfConnectionState_from(cb.state), addr |-> cb.addr]
      [] cb.fn = "hfp_audio_state_callback" ->
            [variant |-> "AudioState",
             state |-> BthfAudioState_from(cb.state), addr |-> cb.addr]
      [] cb.fn = "hfp_volume_update_callback" ->
            [variant |-> "VolumeUpdate", volume |-> cb.volume, addr |-> cb.addr]
      [] cb.fn = "hfp_mic_volume_update_callback" ->
            [variant |-> "MicVolumeUpdate", volume |-> cb.volume, addr |-> cb.addr]
      [] cb.fn = "hfp_vendor_specific_at_command_callback" ->
            [variant |-> "VendorSpecificAtCommand", text |-> cb.text, addr |-> cb.addr]
      [] cb.fn = "hfp_battery_level_update_callback" ->
            [variant |-> "BatteryLevelUpdate", volume |-> cb.volume, addr |-> cb.addr]
      [] cb.fn = "hfp_wbs_caps_update_callback" ->
            [variant |-> "WbsCapsUpdate", supported |-> cb.supported, addr |-> cb.addr]
      [] cb.fn = "hfp_swb_caps_update_callback" ->
            [variant |-> "SwbCapsUpdate", supported |-> cb.supported, addr |-> cb.addr]
      [] cb.fn = "hfp_indicator_query_callback" ->
            [variant |-> "IndicatorQuery", addr |-> cb.addr]
      [] cb.fn = "hfp_current_calls_query_callback" ->
            [variant |-> "CurrentCallsQuery", addr |-> cb.addr]
      [] cb.fn = "hfp_answer_call_callback" ->
            [variant |-> "AnswerCall", addr |-> cb.addr]
      [] cb.fn = "hfp_hangup_call_callback" ->
            [variant |-> "HangupCall", addr |-> cb.addr]
      [] cb.fn = "hfp_dial_call_callback" ->
            [variant |-> "DialCall", text |-> cb.text, addr |-> cb.addr]
      [] cb.fn = "hfp_call_hold_callback" ->
            [variant |-> "CallHold", chld |-> cb.chld, addr |-> cb.addr]
      [] cb.fn = "hfp_debug_dump_callback" ->
            [variant |-> "DebugDump", dump |-> cb.dump]

\* The transport calls an extern "Rust" callback on thread t.
Enter(t, cb) ==
    /\ ~panicked
    /\ pc[t] = "idle"
    /\ pc' = [pc EXCEPT ![t] = "entered"]
    /\ raw' = [raw EXCEPT ![t] = cb]
    /\ res' = [res EXCEPT ![t] = "none"]
    /\ NoMethod
    /\ UNCHANGED <<ev, cb_lock, hfpVars, regVars, transportVars>>

hfp_connection_state_callback(t, state, addr) ==
    Enter(t, [fn |-> "hfp_connection_state_callback", state |-> state, addr |-> addr])
hfp_audio_state_callback(t, state, addr) ==
    Enter(t, [fn |-> "hfp_audio_state_callback", state |-> state, addr |-> addr])
hfp_volume_update_callback(t, volume, addr) ==
    Enter(t, [fn |-> "hfp_volume_update_callback", volume |-> volume, addr |-> addr])
hfp_mic_volume_update_callback(t, volume, addr) ==
    Enter(t, [fn |-> "hfp_mic_volume_update_callback", volume |-> volume, addr |-> addr])
hfp_vendor_specific_at_command_callback(t, at_string, addr) ==
    Enter(t, [fn |-> "hfp_vendor_specific_at_command_callback",
              text |-> at_string, addr |-> addr])
hfp_battery_level_update_callback(t, battery_level, addr) ==
    Enter(t, [fn |-> "hfp_battery_level_update_callback",
              volume |-> battery_level, addr |-> addr])
hfp_wbs_caps_update_callback(t, wbs_supported, addr) ==
    Enter(t, [fn |-> "hfp_wbs_caps_update_callback",
              supported |-> wbs_supported, addr |-> addr])
hfp_swb_caps_update_callback(t, swb_supported, addr) ==
    Enter(t, [fn |-> "hfp_swb_caps_update_callback",
              supported |-> swb_supported, addr |-> addr])
hfp_indicator_query_callback(t, addr) ==
    Enter(t, [fn |-> "hfp_indicator_query_callback", addr |-> addr])
hfp_current_calls_query_callback(t, addr) ==
    Enter(t, [fn |-> "hfp_current_calls_query_callback", addr |-> addr])
hfp_answer_call_callback(t, addr) ==
    Enter(t, [fn |-> "hfp_answer_call_callback", addr |-> addr])
hfp_hangup_call_callback(t, addr) ==
    Enter(t, [fn |-> "hfp_hangup_call_callback", addr |-> addr])
hfp_dial_call_callback(t, number, addr) ==
    Enter(t, [fn |-> "hfp_dial_call_callback", text |-> number, addr |-> addr])
hfp_call_hold_callback(t, chld, addr) ==
    Enter(t, [fn |-> "hfp_call_hold_callback", chld |-> chld, addr |-> addr])
hfp_debug_dump_callback(t, dump) ==
    Enter(t, [fn |-> "hfp_debug_dump_callback", dump |-> dump])

\* The conversion of an argument panics (unwrap on None): the process dies.
ConversionPanics(t) ==
    /\ ~panicked
    /\ pc[t] = "entered"
    /\ Unwraps(raw[t])
    /\ panicked' = TRUE
    /\ pc' = [pc EXCEPT ![t] = "aborted"]
    /\ res' = [res EXCEPT ![t] = "aborted"]
    /\ NoMethod
    /\ UNCHANGED <<raw, ev, cb_lock, dispatcher, hfpVars, transportVars>>

\* get_dispatchers().lock().get::<HfpCb>(): the registered dispatcher.
DispatchersGet == dispatcher

\* No dispatcher is registered: the callback is rejected.
NoDispatcher(t) ==
    /\ ~panicked
    /\ pc[t] = "entered"
    /\ ~Unwraps(raw[t])
    /\ DispatchersGet = NoSub
    /\ pc' = [pc EXCEPT ![t] = "idle"]
    /\ raw' = [raw EXCEPT ![t] = NoCb]
    /\ res' = [res EXCEPT ![t] = "rejected"]
    /\ NoMethod
    /\ UNCHANGED <<ev, cb_lock, hfpVars, regVars, transportVars>>

\* HfpCb without the Mutex: any thread may reach dispatch.
MutexFree_no_mutex == TRUE

\* type HfpCb = Arc<Mutex<HfpCallbacksDispatcher>>: the dispatch function
\* is reached through the Mutex, which one thread holds at a time.
MutexFree == cb_lock = NoThread

\* Thread t takes the Mutex and invokes dispatch with the HfpCallbacks value.
Dispatch(t) ==
    /\ ~panicked
    /\ pc[t] = "entered"
    /\ ~Unwraps(raw[t])
    /\ DispatchersGet # NoSub
    /\ MutexFree
    /\ cb_lock' = t
    /\ pc' = [pc EXCEPT ![t] = "dispatching"]
    /\ ev' = [ev EXCEPT ![t] = [sub |-> DispatchersGet, event |-> HfpCallbacks(raw[t])]]
    /\ NoMethod
    /\ UNCHANGED <<raw, res, hfpVars, regVars, transportVars>>

\* dispatch returns; the MutexGuard is dropped and the callback returns.
Return(t) ==
    /\ ~panicked
    /\ pc[t] = "dispatching"
    /\ cb_lock' = NoThread
    /\ pc' = [pc EXCEPT ![t] = "idle"]
    /\ raw' = [raw EXCEPT ![t] = NoCb]
    /\ ev' = [ev EXCEPT ![t] = NoEv]
    /\ res' = [res EXCEPT ![t] = "delivered"]
    /\ NoMethod
    /\ UNCHANGED <<hfpVars, regVars, transportVars>>

\* The steps of a callback after its entry.
Callback(t) ==
    \/ ConversionPanics(t)
    \/ NoDispatcher(t)
    \/ Dispatch(t)
    \/ Return(t)

\* Every callback with every payload, one at a time on the first thread.
FirstThread == {t \in Threads : \A u \in Threads : t <= u}
NextEv ==
    \/ \E callbacks \in Subscribers : initialize(callbacks)
    \/ \E t \in FirstThread :
        \/ \E state \in RawStates, addr \in Addrs :
              hfp_connection_state_callback(t, state, addr)
        \/ \E state \in RawStates, addr \in Addrs :
              hfp_audio_state_callback(t, state, addr)
        \/ \E volume \in U8s, addr \in Addrs : hfp_volume_update_callback(t, volume, addr)
        \/ \E volume \in U8s, addr \in Addrs :
              hfp_mic_volume_update_callback(t, volume, addr)
        \/ \E at_string \in AtStrings, addr \in Addrs :
              hfp_vendor_specific_at_command_callback(t, at_string, addr)
        \/ \E battery_level \in U8s, addr \in Addrs :
              hfp_battery_level_update_callback(t, battery_level, addr)
        \/ \E wbs_supported \in BOOLEAN, addr \in Addrs :
              hfp_wbs_caps_update_callback(t, wbs_supported, addr)
        \/ \E swb_supported \in BOOLEAN, addr \in Addrs :
              hfp_swb_caps_update_callback(t, swb_supported, addr)
        \/ \E addr \in Addrs : hfp_indicator_query_callback(t, addr)
        \/ \E addr \in Addrs : hfp_current_calls_query_callback(t, addr)
        \/ \E addr \in Addrs : hfp_answer_call_callback(t, addr)
        \/ \E addr \in Addrs : hfp_hangup_call_callback(t, addr)
        \/ \E number \in Numbers, addr \in Addrs : hfp_dial_call_callback(t, number, addr)
        \/ \E chld \in CallHoldCommand, addr \in Addrs :
              hfp_call_hold_callback(t, chld, addr)
        \/ \E dump \in DebugDumps : hfp_debug_dump_callback(t, dump)
        \/ Callback(t)

SpecEv == Init /\ [][NextEv]_vars

\* Callbacks of every kind running concurrently on all threads, each kind
\* with one payload for the first address; the connection state callback
\* also with the largest raw state.
FirstAddr == {a \in Addrs : \A b \in Addrs : a <= b}
NextCb ==
    \/ \E callbacks \in Subscribers : initialize(callbacks)
    \/ \E t \in Threads, addr \in FirstAddr :
        \/ \E state \in {MaxRawState - MaxRawState, MaxRawState} :
              hfp_connection_state_callback(t, state, addr)
        \/ \E state \in {MaxRawState - MaxRawState} : hfp_audio_state_callback(t, state, addr)
        \/ \E volume \in U8s : hfp_volume_update_callback(t, volume, addr)
        \/ \E volume \in U8s : hfp_mic_volume_update_callback(t, volume, addr)
        \/ \E at_string \in AtStrings :
              hfp_vendor_specific_at_command_callback(t, at_string, addr)
        \/ \E battery_level \in U8s : hfp_battery_level_update_callback(t, battery_level, addr)
        \/ \E wbs_supported \in {TRUE} : hfp_wbs_caps_update_callback(t, wbs_supported, addr)
        \/ \E swb_supported \in {TRUE} : hfp_swb_caps_update_callback(t, swb_supported, addr)
        \/ hfp_indicator_query_callback(t, addr)
        \/ hfp_current_calls_query_callback(t, addr)
        \/ hfp_answer_call_callback(t, addr)
        \/ hfp_hangup_call_callback(t, addr)
        \/ \E number \in Numbers : hfp_dial_call_callback(t, number, addr)
        \/ \E chld \in {"AddHeldToConf"} : hfp_call_hold_callback(t, chld, addr)
        \/ \E dump \in DebugDumps : hfp_debug_dump_callback(t, dump)
        \/ Callback(t)

SpecCb == Init /\ [][NextCb]_vars


\* ------------------------------------------------- codec bit-sets (bitflags!)
\* Raw i32 values handed to try_from: -MaxCodecRaw .. MaxCodecRaw.
MaxCodecRaw == 32
CodecRaws == (0 - MaxCodecRaw)..MaxCodecRaw

\* bitflags! struct HfpCodecBitId: i32, hfp.rs lines 81-89.
HfpCodecBitId == [NONE |-> 0, CVSD |-> 1, MSBC |-> 2, LC3 |-> 4]
\* bitflags! struct HfpCodecFormat: i32, hfp.rs lines 112-121.
HfpCodecFormat ==
    [NONE |-> 0, CVSD |-> 1, MSBC_TRANSPARENT |-> 2, MSBC |-> 4, LC3_TRANSPARENT |-> 8]

\* The bit positions of an i32, and bit i of the two's complement of val.
I32Bits == 0..31
I32Bit(val, i) ==
    IF val >= 0
    THEN IF i = 31 THEN 0 ELSE (val \div (2 ^ i)) % 2
    ELSE IF i = 31 THEN 1 ELSE 1 - ((((0 - val) - 1) \div (2 ^ i)) % 2)

\* Self::all().bits(): the positions set in some flag of the struct.
all_bits(flags) ==
    {i \in I32Bits : \E f \in DOMAIN flags : I32Bit(flags[f], i) = 1}

\* bitflags from_bits: Some(bits) when no bit outside all() is set.
from_bits(flags, val) ==
    IF \A i \in I32Bits : I32Bit(val, i) = 1 => i \in all_bits(flags)
    THEN [some |-> TRUE, bits |-> val]
    ELSE [some |-> FALSE]

\* Option::ok_or(()): Ok(bits) or Err(()).
ok_or(option) ==
    IF option.some THEN [ok |-> TRUE, bits |-> option.bits] ELSE [ok |-> FALSE]

\* A conversion named name applied to val gave r; no Hfp state is involved.
Converts(name, val, r) ==
    /\ op' = [name |-> name, addr |-> NoAddr, val |-> val]
    /\ ret' = r
    /\ tcall' = NoCall
    /\ tret' = <<>>
    /\ again' = FALSE
    /\ init_called' = init_called
    /\ UNCHANGED <<hfpVars, regVars, transportVars, cbVars>>

\* impl TryFrom<i32> for HfpCodecBitId, hfp.rs lines 105-110.
HfpCodecBitId_try_from(val) ==
    Converts("HfpCodecBitId::try_from", val, ok_or(from_bits(HfpCodecBitId, val)))

\* try_from keeping the known bits of any value (from_bits_truncate).
HfpCodecFormat_try_from_truncates(val) ==
    Converts("HfpCodecFormat::try_from", val,
             [ok |-> TRUE, bits |-> IF val >= 0 THEN val % 16 ELSE 15 - (((0 - val) - 1) % 16)])

\* impl TryFrom<i32> for HfpCodecFormat, hfp.rs lines 130-135.
HfpCodecFormat_try_from(val) ==
    Converts("HfpCodecFormat::try_from", val, ok_or(from_bits(HfpCodecFormat, val)))

NextCodec ==
    \/ \E val \in CodecRaws : HfpCodecBitId_try_from(val)
    \/ \E val \in CodecRaws : HfpCodecFormat_try_from(val)

SpecCodec == Init /\ [][NextCodec]_vars


\* ------------------------------------------------------------- call lists
\* Longest call list handed to current_calls_query_response, and the
\* largest CallInfo index.
MaxCallList == 3
\* The Vec<CallInfo> values with unique indices, in every order.
UniqueCallLists ==
    {[i \in 1..Len(l) |-> CallInfo(l[i])] :
        l \in {m \in UNION {[1..n -> 1..MaxCallList] : n \in 0..MaxCallList} :
                 \A i, j \in DOMAIN m : m[i] = m[j] => i = j}}

NextCalls ==
    \/ enable
    \/ disable
    \/ \E call_list \in UniqueCallLists, addr \in Addrs :
          current_calls_query_response(call_list, addr)

SpecCalls == Init /\ [][NextCalls]_vars


\* ----------------------------------------------------------------- claims
\* The twelve command gateway operations.
GatewayOps ==
    {"connect", "connect_audio", "set_active_device", "set_volume", "set_mic_volume",
     "disconnect", "disconnect_audio", "device_status_notification",
     "indicator_query_response", "current_calls_query_response",
     "phone_state_change", "simple_at_response"}
\* Those that return the i32 of the transport, not a BtStatus.
PassthroughOps == {"connect_audio", "set_active_device", "set_volume", "disconnect_audio"}
\* The value with which the method called name reports status.
Status(name, status) ==
    IF name \in PassthroughOps THEN BtStatus_into(status) ELSE status

\* C1: a command gateway operation invoked while the profile is not enabled
\* returns NotReady, makes no transport call and changes nothing (the Hfp
\* flags, the dispatcher, the transport state and the callbacks stay as
\* they were).
C1_NotReadyWhenDisabled ==
    [][(~is_enabled /\ op'.name \in GatewayOps) =>
            /\ ret' = Status(op'.name, "NotReady")
            /\ tcall' = NoCall
            /\ UNCHANGED <<hfpVars, regVars, transportVars, cbVars>>]_vars

\* C1 witness: set_volume returned NotReady on a profile that was enabled,
\* used and disabled again.
C1_Witness ==
    /\ ~is_enabled
    /\ op.name = "set_volume"
    /\ ret = BtStatus_into("NotReady")
    /\ tcall = NoCall
    /\ \E a \in Addrs : conn[a] # "Disconnected"

\* C2: once a dispatcher is registered it is never replaced, and every
\* later initialize call panics without returning; the dispatcher
\* registered by the first call is the one that call was given.
C2_InitializeOnce ==
    [][/\ (dispatcher = NoSub /\ op'.name = "initialize") =>
              /\ dispatcher' = op'.callbacks
              /\ ret' = TRUE
              /\ ~panicked'
       /\ dispatcher # NoSub =>
              /\ dispatcher' = dispatcher
              /\ op'.name = "initialize" =>
                    panicked' /\ ret' = NoRet /\ is_init' = is_init]_vars

\* C2 witness: a second initialize, given another dispatcher, has panicked
\* and the first dispatcher is still the registered one.
C2_Witness ==
    /\ panicked
    /\ op.name = "initialize"
    /\ op.callbacks = "sub2"
    /\ dispatcher = "sub1"


\* C3: at no time are two invocations of the subscriber's dispatch function
\* in progress.
C3_DispatchMutuallyExclusive ==
    Cardinality({t \in Threads : pc[t] = "dispatching"}) <= 1

\* C3 witness: one callback is inside dispatch while a callback of another
\* kind, on another thread, waits to dispatch.
C3_Witness ==
    \E t, u \in Threads :
        /\ pc[t] = "dispatching"
        /\ pc[u] = "entered"
        /\ ~Unwraps(raw[u])
        /\ raw[u].fn # raw[t].fn

\* C4: with a subscriber registered, every callback invokes it exactly
\* once with the event of the callback: a callback inside dispatch handed
\* over the HfpCallbacks value of its own arguments to the registered
\* subscriber, and no callback ends without having dispatched.
C4_EveryCallbackDelivered ==
    \A t \in Threads :
        /\ pc[t] = "dispatching" =>
              ev[t] = [sub |-> dispatcher, event |-> HfpCallbacks(raw[t])]
        /\ dispatcher # NoSub => res[t] # "aborted"

C6_ConnectAudioNeedsSignaling ==
    (is_enabled /\ op.name = "connect_audio"
        /\ conn[op.addr] \in {"Disconnected", "Connecting"})
    => ret # BtStatus_into("Success")

\* C6 witness: connect_audio was refused on a device still Connecting.
C6_Witness ==
    /\ is_enabled
    /\ op.name = "connect_audio"
    /\ conn[op.addr] = "Connecting"
    /\ ret = BtStatus_into("NotReady")

InvalidRequest(name, a) ==
    \/ name = "connect" /\ conn[a] = "Disconnecting"
    \/ name = "connect_audio"
        /\ (conn[a] \notin SignalingUp \/ audio[a] # "Disconnected")
    \/ name = "disconnect" /\ conn[a] \notin NonTerminal
    \/ name = "disconnect_audio" /\ audio[a] \notin {"Connecting", "Connected"}

WithinPositions(n) == 0..((2 ^ n) - 1)

\* C11 as stated: constructing a codec bit-set (HfpCodecBitId or
\* HfpCodecFormat) from a raw integer succeeds exactly for the values whose
\* set bits lie within four defined positions, 0 included.
C11_FourPositions ==
    op.name \in {"HfpCodecBitId::try_from", "HfpCodecFormat::try_from"} =>
        (ret.ok <=> op.val \in WithinPositions(4))

\* C11 amended: HfpCodecFormat is constructed exactly from the values within
\* its four positions, HfpCodecBitId exactly from the values within its
\* three positions; 0 is accepted by both, a value with any other bit set
\* (a negative value included) gives an error, and an accepted value keeps
\* its bits.
C11_DefinedPositions ==
    /\ op.name = "HfpCodecFormat::try_from" =>
            /\ ret.ok <=> op.val \in WithinPositions(4)
            /\ ret.ok => ret.bits = op.val
    /\ op.name = "HfpCodecBitId::try_from" =>
            /\ ret.ok <=> op.val \in WithinPositions(3)
            /\ ret.ok => ret.bits = op.val

\* C11 witness: HfpCodecFormat was constructed from all four of its bits.
C11_Witness ==
    /\ op.name = "HfpCodecFormat::try_from"
    /\ op.val = 15
    /\ ret = [ok |-> TRUE, bits |-> 15]


\* C12: debug_dump is always permitted: in every state of the profile,
\* enabled or not, a debug_dump call makes the debug_dump call on the
\* transport.
C12_DebugDumpAlwaysForwarded ==
    op.name = "debug_dump" => tcall = Call("debug_dump", <<>>)

\* C13: a callback arriving in any state of the profile and in any order
\* never crashes: every callback that has ended was either delivered to the
\* subscriber or rejected, and none was aborted by a panic.
C13_CallbacksNeverCrash ==
    \A t \in Threads :
        /\ pc[t] \in {"idle", "entered", "dispatching"}
        /\ res[t] \in {"none", "delivered", "rejected"}

\* C14: with the profile enabled, current_calls_query_response given a list
\* of N CallInfo entries with unique indices makes one transport call whose
\* list has exactly those N entries in the order supplied, and the caller's
\* list is as it was supplied.
C14_CallListRoundTrip ==
    (is_enabled /\ op.name = "current_calls_query_response") =>
        /\ op.call_list \in UniqueCallLists
        /\ tcall.fn = "current_calls_query_response"
        /\ Len(tcall.args[1]) = Len(op.call_list)
        /\ \A i \in 1..Len(op.call_list) : tcall.args[1][i] = op.call_list[i]
        /\ tcall.args[2] = op.addr

\* C14 witness: a list of two or more entries, supplied with its indices in
\* descending order, was submitted in that order.
C14_Witness ==
    /\ is_enabled
    /\ op.name = "current_calls_query_response"
    /\ Len(op.call_list) >= 2
    /\ op.call_list[1].index > op.call_list[2].index
    /\ tcall = Call("current_calls_query_response", <<op.call_list, op.addr>>)

\* C15: with the profile enabled, a command gateway operation makes
\* exactly one transport call, the one of its own name, and returns the
\* result of that call whatever it is: connect_audio, set_active_device,
\* set_volume and disconnect_audio return the raw integer unchanged, the
\* others return it as a BtStatus.
C15_OneCallResultReturned ==
    (is_enabled /\ op.name \in GatewayOps) =>
        /\ Len(tret) = 1
        /\ tcall.fn = op.name
        /\ ret = IF op.name \in PassthroughOps THEN tret[1] ELSE BtStatus_from(tret[1])

\* C15 witness: the transport's set_volume returned a code that is no
\* status the gateway itself produces, and set_volume returned that code.
C15_Witness ==
    /\ is_enabled
    /\ op.name = "set_volume"
    /\ tcall.fn = "set_volume"
    /\ tret = <<ret>>
    /\ ret \notin {BtStatus_into("Success"), BtStatus_into("NotReady")}

\* C16: enable in any state calls the transport's init once, sets the
\* profile enabled and returns true, also on a profile that is enabled;
\* disable on a profile that is not enabled returns false, makes no
\* transport call and changes nothing; disable on an enabled profile calls
\* the transport's cleanup once, clears enabled and returns true.
C16_EnableDisable ==
    [][/\ op'.name = "enable" =>
              /\ tcall' = Call("init", <<>>)
              /\ Len(tret') = 1
              /\ is_enabled'
              /\ ret' = TRUE
       /\ (op'.name = "disable" /\ ~is_enabled) =>
              /\ ret' = FALSE
              /\ tcall' = NoCall
              /\ tret' = <<>>
              /\ UNCHANGED <<hfpVars, regVars, transportVars, cbVars>>
       /\ (op'.name = "disable" /\ is_enabled) =>
              /\ tcall' = Call("cleanup", <<>>)
              /\ Len(tret') = 1
              /\ ~is_enabled'
              /\ ret' = TRUE]_vars

\* C16 witness: enable directly followed enable, and called init again.
C16_Witness ==
    /\ op.name = "enable"
    /\ again
    /\ tcall = Call("init", <<>>)
    /\ is_enabled
    /\ ret = TRUE

\* C17: cleanup on an enabled profile calls the transport's cleanup and
\* returns true but leaves the profile enabled, and a gateway operation that
\* directly follows it is forwarded to the transport; cleanup on a profile
\* that is not enabled returns false, makes no transport call and changes
\* nothing.
C17_CleanupLeavesEnabled ==
    [][/\ (op'.name = "cleanup" /\ is_enabled) =>
              /\ tcall' = Call("cleanup", <<>>)
              /\ Len(tret') = 1
              /\ ret' = TRUE
              /\ is_enabled'
              /\ is_init' = is_init
       /\ (op'.name = "cleanup" /\ ~is_enabled) =>
              /\ ret' = FALSE
              /\ tcall' = NoCall
              /\ UNCHANGED <<hfpVars, regVars, transportVars, cbVars>>
       /\ (op.name = "cleanup" /\ tcall = Call("cleanup", <<>>)
                /\ op'.name \in GatewayOps) =>
              /\ tcall'.fn = op'.name
              /\ Len(tret') = 1]_vars

\* C17 witness: cleanup called the transport's cleanup, returned true, and
\* the profile is still enabled.
C17_Witness ==
    /\ op.name = "cleanup"
    /\ tcall = Call("cleanup", <<>>)
    /\ ret = TRUE
    /\ is_enabled

\* C18: every call of the transport's cleanup is preceded by a call of the
\* transport's init: no step calls cleanup unless init was called before it.
C18_CleanupAfterInit ==
    [][tcall'.fn = "cleanup" => init_called]_vars

\* C18 witness: disable called the transport's cleanup on a profile that
\* enable had initialised.
C18_Witness ==
    /\ op.name = "disable"
    /\ tcall = Call("cleanup", <<>>)
    /\ init_called
    /\ ~is_enabled

\* C19: is_initialized is false on a new Hfp, changes only when initialize
\* returns, and then to true, so enable, disable and cleanup never reset it;
\* a gateway operation on an enabled profile is forwarded to the transport
\* whether or not a subscriber was registered.
C19_InitIndependentOfEnabled ==
    /\ ~is_init
    /\ [][/\ is_init' # is_init =>
                (op'.name = "initialize" /\ ~panicked' /\ ret' = TRUE /\ is_init')
          /\ op'.name \in {"enable", "disable", "cleanup"} => is_init' = is_init
          /\ (is_enabled /\ op'.name \in GatewayOps) =>
                (tcall'.fn = op'.name /\ Len(tret') = 1)]_vars

\* C19 witness: connect was forwarded on an enabled profile on which
\* initialize was never called.
C19_Witness ==
    /\ is_enabled
    /\ ~is_init
    /\ dispatcher = NoSub
    /\ op.name = "connect"
    /\ tcall = Call("connect", <<op.addr>>)

====
